---- MODULE Spec2Model ----
(***************************************************************************)
(* Model of the Mixcloud uploader (src/mixcloud_backend.py) and of the     *)
(* arguments its front ends (src/backend.py, src/mixcloud_backend.py)      *)
(* hand to MixcloudUploader.upload.                                        *)
(*                                                                         *)
(* Python values.  A str is a sequence of one-character strings.  Python's *)
(* None is NoneStr where a str is expected and NoneList where a list of    *)
(* str is expected (neither is a str or a list of str of the program).     *)
(***************************************************************************)
EXTENDS Integers, Sequences, FiniteSets, TLC

----------------------------------------------------------------------------
(* Python values and str methods *)

NoneStr  == << "<None>" >>
NoneList == << << "<None>" >> >>

\* bool(x) for an optional str and for an optional list of str: None and the
\* empty value are falsy
Truthy(x)     == x # NoneStr /\ x # << >>
TruthyList(x) == x # NoneList /\ x # << >>

\* x or y, for str and for lists
PyOr(x, y)     == IF Truthy(x) THEN x ELSE y
PyOrList(x, y) == IF TruthyList(x) THEN x ELSE y

\* str(x) as an f-string interpolates it: None becomes the text None
Format(x) == IF x = NoneStr THEN << "N", "o", "n", "e" >> ELSE x

Whitespace == { " ", "\n" }

RECURSIVE LStrip(_)
LStrip(s) == IF s # << >> /\ Head(s) \in Whitespace THEN LStrip(Tail(s)) ELSE s

RECURSIVE RStrip(_)
RStrip(s) ==
  IF s # << >> /\ s[Len(s)] \in Whitespace THEN RStrip(SubSeq(s, 1, Len(s) - 1)) ELSE s

\* str.strip()
Strip(s) == RStrip(LStrip(s))

UpperToLower ==
  [ c \in { "A", "B", "C", "J", "P", "G", "N" } |->
      CASE c = "A" -> "a" [] c = "B" -> "b" [] c = "C" -> "c" [] c = "J" -> "j"
        [] c = "P" -> "p" [] c = "G" -> "g" [] c = "N" -> "n" ]

LowerChar(c) == IF c \in DOMAIN UpperToLower THEN UpperToLower[c] ELSE c

\* str.lower()
Lower(s) == [ i \in 1..Len(s) |-> LowerChar(s[i]) ]

StartsWith(s, pat) == Len(s) >= Len(pat) /\ SubSeq(s, 1, Len(pat)) = pat

\* str.replace(pat, rep): every non-overlapping occurrence, left to right
RECURSIVE Replace(_, _, _)
Replace(s, pat, rep) ==
  IF s = << >> THEN << >>
  ELSE IF StartsWith(s, pat)
       THEN rep \o Replace(SubSeq(s, Len(pat) + 1, Len(s)), pat, rep)
       ELSE << Head(s) >> \o Replace(Tail(s), pat, rep)

\* the last index of character c in s, 0 when there is none (str.rfind + 1)
RFind(s, c) ==
  LET hits == { i \in 1..Len(s) : s[i] = c }
  IN  IF hits = {} THEN 0 ELSE CHOOSE i \in hits : \A j \in hits : j <= i

\* os.path.basename
Basename(path) == SubSeq(path, RFind(path, "/") + 1, Len(path))

\* pathlib.PurePath.suffix of a file name: from the last dot, unless that dot
\* leads or ends the name
Suffix(name) ==
  LET i == RFind(name, ".")
  IN  IF 1 < i /\ i < Len(name) THEN SubSeq(name, i, Len(name)) ELSE << >>

\* pathlib.PurePath.stem
Stem(name) == SubSeq(name, 1, Len(name) - Len(Suffix(name)))

\* code points order the characters the model uses (str comparison)
Ord(c) ==
  CASE c = "\n" -> 10 [] c = " " -> 32 [] c = "-" -> 45 [] c = "." -> 46
    [] c = "/" -> 47 [] c = "3" -> 51
    [] c = "A" -> 65 [] c = "B" -> 66 [] c = "C" -> 67 [] c = "G" -> 71
    [] c = "J" -> 74 [] c = "N" -> 78 [] c = "P" -> 80
    [] c = "a" -> 97 [] c = "b" -> 98 [] c = "c" -> 99 [] c = "d" -> 100
    [] c = "e" -> 101 [] c = "g" -> 103 [] c = "h" -> 104 [] c = "j" -> 106
    [] c = "m" -> 109 [] c = "n" -> 110 [] c = "o" -> 111 [] c = "p" -> 112
    [] c = "t" -> 116 [] c = "w" -> 119 [] c = "x" -> 120 [] c = "y" -> 121
    [] c = "z" -> 122
    [] OTHER -> 63

\* s < t for str
RECURSIVE StrLess(_, _)
StrLess(s, t) ==
  IF t = << >> THEN FALSE
  ELSE IF s = << >> THEN TRUE
  ELSE IF Ord(Head(s)) # Ord(Head(t)) THEN Ord(Head(s)) < Ord(Head(t))
  ELSE StrLess(Tail(s), Tail(t))

----------------------------------------------------------------------------
(* difflib *)

\* SequenceMatcher.find_longest_match(a, b) on whole strings, no junk: the
\* block <<i, j, k>> with a[i..i+k-1] = b[j..j+k-1], k largest, then i least,
\* then j least; k = 0 when nothing matches
MatchAt(a, b, i, j, k) ==
  /\ i + k - 1 <= Len(a)
  /\ j + k - 1 <= Len(b)
  /\ \A d \in 0..(k - 1) : a[i + d] = b[j + d]

find_longest_match(a, b) ==
  LET blocks == { t \in (1..Len(a)) \X (1..Len(b)) \X (1..Len(a)) :
                    MatchAt(a, b, t[1], t[2], t[3]) }
  IN  IF blocks = {} THEN << 1, 1, 0 >>
      ELSE CHOOSE t \in blocks :
             \A u \in blocks :
               \/ t[3] > u[3]
               \/ t[3] = u[3] /\ t[1] < u[1]
               \/ t[3] = u[3] /\ t[1] = u[1] /\ t[2] <= u[2]

\* the total size of SequenceMatcher.get_matching_blocks(): the longest block,
\* then the same to its left and to its right
RECURSIVE MatchingSize(_, _)
MatchingSize(a, b) ==
  IF a = << >> \/ b = << >> THEN 0
  ELSE LET m == find_longest_match(a, b)
           i == m[1]
           j == m[2]
           k == m[3]
       IN  IF k = 0 THEN 0
           ELSE k + MatchingSize(SubSeq(a, 1, i - 1), SubSeq(b, 1, j - 1))
                  + MatchingSize(SubSeq(a, i + k, Len(a)), SubSeq(b, j + k, Len(b)))

\* the cutoff 0.6 of both call sites, as the fraction CutoffNum / CutoffDen
CutoffNum == 6
CutoffDen == 10

\* mutant of RatioClears: no cutoff
ClearsAny(x, word) == TRUE

\* SequenceMatcher(a = x, b = word).ratio() >= cutoff, with ratio = 2*M/T
\* (ratio is 1.0 for two empty strings)
RatioClears(x, word) ==
  LET T == Len(x) + Len(word)
  IN  IF T = 0 THEN TRUE
      ELSE 2 * MatchingSize(x, word) * CutoffDen >= CutoffNum * T

\* (ratio(x), x) < (ratio(y), y) as heapq.nlargest compares the scored pairs
ScoredLess(x, y, word) ==
  LET Tx == Len(x) + Len(word)
      Ty == Len(y) + Len(word)
      nx == IF Tx = 0 THEN 1 ELSE 2 * MatchingSize(x, word)
      dx == IF Tx = 0 THEN 1 ELSE Tx
      ny == IF Ty = 0 THEN 1 ELSE 2 * MatchingSize(y, word)
      dy == IF Ty = 0 THEN 1 ELSE Ty
  IN  \/ nx * dy < ny * dx
      \/ nx * dy = ny * dx /\ StrLess(x, y)

\* get_close_matches(word, possibilities, n=1, cutoff=0.6): the list holding the
\* best-scored possibility that clears the cutoff, or the empty list
get_close_matches(word, possibilities) ==
  LET good == { possibilities[i] : i \in { i \in 1..Len(possibilities) :
                                          RatioClears(possibilities[i], word) } }
  IN  IF good = {} THEN << >>
      ELSE << CHOOSE x \in good : \A y \in good : y = x \/ ScoredLess(y, x, word) >>

----------------------------------------------------------------------------
(* The environment: what the files and the remote services can hold, and the
   arguments front ends pass.  A str built from program text may hold a whole
   literal of the program as one element (no str method is applied to it
   afterwards).  The file system honours the operations the code performs:
   opening a directory for reading fails, removing a file that is not there
   fails, everything else succeeds. *)

Callers == { "c1", "c2" }

\* the platform's limit on tag fields (the slices [:5])
TagLimit == 5

\* the longest explicit tag list a caller passes
MaxTags == 6

S(c) == << c >>

\* bearer tokens the token endpoint issues (one comes with a blank before it)
Tokens == { S("a"), S("b"), << " ", "b" >> }

\* what token.txt holds when the process starts
TokenFiles ==
  { [exists |-> FALSE, text |-> << >>],
    [exists |-> TRUE,  text |-> << >>],
    [exists |-> TRUE,  text |-> << " ", "\n" >>],
    [exists |-> TRUE,  text |-> << "a" >>],
    [exists |-> TRUE,  text |-> << "a", "\n" >>] }

Row(show, bio, host, tags) == [show |-> show, bio |-> bio, host |-> host, tags |-> tags]

\* shows.csv: absent, or the rows DictReader yields
MetadataFiles ==
  { [exists |-> FALSE, rows |-> << >>],
    [exists |-> TRUE,
     rows |-> << Row(<< " ", "A", "b" >>, << "d", "e", " " >>, << "h" >>,
                     << "t", ";", " ", "u", ";", ";", "v", ";", "w", ";", "x", ";", "y", ";", "z" >>),
                 Row(<< "a", "b", " ", "c" >>, << >>, << >>, << " ", ";" >>),
                 Row(<< " " >>, << "e" >>, << "h" >>, << "t" >>) >>] }

\* more contents of shows.csv: no row, only a row without a name, names that
\* differ only in case, names close to one another, and one name on two rows
CatalogFiles ==
  MetadataFiles \cup
  { [exists |-> TRUE, rows |-> << >>],
    [exists |-> TRUE, rows |-> << Row(<< " " >>, S("x"), S("h"), S("t")) >>],
    [exists |-> TRUE,
     rows |-> << Row(<< "a", "b" >>, S("x"), S("h"), S("t")),
                 Row(<< "A", "B" >>, S("y"), S("i"), S("u")) >>],
    [exists |-> TRUE,
     rows |-> << Row(<< "a", "b", " ", "c" >>, S("x"), S("h"), S("t")),
                 Row(<< "a", "b", " ", "d" >>, S("y"), S("i"), S("u")),
                 Row(<< "a", "b" >>, S("z"), << >>, << >>) >>],
    [exists |-> TRUE,
     rows |-> << Row(<< "a", "b" >>, S("x"), S("h"), S("t")),
                 Row(<< "a", "b", " " >>, S("y"), S("i"), S("u")) >>] }

Entry(name, kind) == [name |-> name, kind |-> kind]

\* the image directory: absent, or its entries in iterdir() order; an entry is
\* a regular file or a directory
ImageFolders ==
  { [exists |-> FALSE, entries |-> << >>],
    [exists |-> TRUE,
     entries |-> << Entry(<< "n", ".", "t", "x", "t" >>, "file"),
                    Entry(<< "a", "b", ".", "J", "P", "G" >>, "file") >>],
    [exists |-> TRUE,
     entries |-> << Entry(<< "A", "b", ".", "p", "n", "g" >>, "dir") >>] }

\* the arguments of upload
Mp3Paths  == { << "u", "/", "a", "b", ".", "m", "p", "3" >> }
Titles    == { NoneStr, << "A", "b" >>, << "b", " ", "c" >>, << "z", "z" >> }
Hosts     == { NoneStr, << >>, S("g") }
DateStrs  == { NoneStr, << >>, S("d") }
TagPool   == << S("p"), S("q"), S("r"), S("s"), S("t"), S("u"), S("v"), S("w") >>
TagLists  == { NoneList } \cup { SubSeq(TagPool, 1, n) : n \in { 0, 1, TagLimit, MaxTags } }

\* status codes the upload endpoint answers with
UploadStatuses == { 200, 201, 401, 403, 500 }

\* the query of a callback request, as its key=value pairs in order
Pair(k, v) == [key |-> k, value |-> v]
Queries ==
  { << >>,
    << Pair("state", S("x")) >>,
    << Pair("code", << >>) >>,
    << Pair("code", S("x")) >>,
    << Pair("code", << >>), Pair("code", S("y")) >>,
    << Pair("state", S("y")), Pair("code", S("y")), Pair("code", S("x")) >> }

\* what the token endpoint answers: a status and the body's access_token
TokenReplies ==
  [status : { 200, 400 }, access_token : { NoneStr, << >> } \cup Tokens]

----------------------------------------------------------------------------
(* MixcloudUploader: the catalog and the two fuzzy look-ups *)

\* str.split(sep) for a one-character sep
RECURSIVE Split(_, _)
Split(s, sep) ==
  LET hits == { i \in 1..Len(s) : s[i] = sep }
  IN  IF hits = {} THEN << s >>
      ELSE LET i == CHOOSE h \in hits : \A g \in hits : h <= g
           IN  << SubSeq(s, 1, i - 1) >> \o Split(SubSeq(s, i + 1, Len(s)), sep)

\* [f(x) for x in xs if keep(x)] with f = strip and keep = non-empty after strip
RECURSIVE StripNonEmpty(_)
StripNonEmpty(xs) ==
  IF xs = << >> THEN << >>
  ELSE IF Strip(Head(xs)) # << >>
       THEN << Strip(Head(xs)) >> \o StripNonEmpty(Tail(xs))
       ELSE StripNonEmpty(Tail(xs))

\* d[key] = value on a dict kept as its items in insertion order
DictSet(d, key, value) ==
  IF \E i \in 1..Len(d) : d[i].name = key
  THEN [ i \in 1..Len(d) |-> IF d[i].name = key THEN [name |-> key, value |-> value] ELSE d[i] ]
  ELSE Append(d, [name |-> key, value |-> value])

RECURSIVE LoadRows(_, _)
LoadRows(rows, metadata) ==
  IF rows = << >> THEN metadata
  ELSE LET row       == Head(rows)
           show_name == Strip(row.show)
           record    == [bio  |-> Strip(row.bio),
                         tags |-> StripNonEmpty(Split(row.tags, ";")),
                         host |-> Strip(row.host)]
       IN  LoadRows(Tail(rows),
                    IF show_name # << >> THEN DictSet(metadata, show_name, record)
                    ELSE metadata)

\* MixcloudUploader.load_metadata
load_metadata(file) == IF ~file.exists THEN << >> ELSE LoadRows(file.rows, << >>)

\* list(d.keys())
Keys(d) == [ i \in 1..Len(d) |-> d[i].name ]

\* d[key], for a key the dict holds
DictGet(d, key) == d[CHOOSE i \in 1..Len(d) : d[i].name = key].value

\* mutant of FirstLowerEqual: the last such name
LastLowerEqual(names, best) ==
  LET hits == { i \in 1..Len(names) : Lower(names[i]) = best }
  IN  IF hits = {} THEN 0 ELSE CHOOSE i \in hits : \A j \in hits : i >= j

\* the index of the first name, in order, with Lower(name) = best; 0 when none
FirstLowerEqual(names, best) ==
  LET hits == { i \in 1..Len(names) : Lower(names[i]) = best }
  IN  IF hits = {} THEN 0 ELSE CHOOSE i \in hits : \A j \in hits : i <= j

LowerAll(names) == [ i \in 1..Len(names) |-> Lower(names[i]) ]

\* MixcloudUploader.find_best_match_name: the catalog key, or NoneStr
find_best_match_name(metadata, query) ==
  LET candidates == Keys(metadata)
      matches    == get_close_matches(Lower(query), LowerAll(candidates))
  IN  IF candidates = << >> THEN NoneStr
      ELSE IF matches = << >> THEN NoneStr
      ELSE LET i == FirstLowerEqual(candidates, matches[1])
           IN  IF i = 0 THEN NoneStr ELSE candidates[i]

\* the empty dict {} (the function with no key) and dict.get(key, default)
EmptyDict == << >>
Get(d, key, default) == IF key \in DOMAIN d THEN d[key] ELSE default

\* mutant of find_best_match_meta: a miss returns no name
MissWithoutName(metadata, name) ==
  LET matched_name == find_best_match_name(metadata, name)
  IN  IF Truthy(matched_name)
      THEN [meta |-> DictGet(metadata, matched_name), matched_name |-> matched_name]
      ELSE [meta |-> EmptyDict, matched_name |-> NoneStr]

\* MixcloudUploader.find_best_match_meta: the pair (meta, matched_name)
find_best_match_meta(metadata, name) ==
  LET matched_name == find_best_match_name(metadata, name)
  IN  IF Truthy(matched_name)
      THEN [meta |-> DictGet(metadata, matched_name), matched_name |-> matched_name]
      ELSE [meta |-> EmptyDict, matched_name |-> name]

ImageSuffixes ==
  { << ".", "j", "p", "g" >>, << ".", "j", "p", "e", "g" >>,
    << ".", "p", "n", "g" >>, << ".", "w", "e", "b", "p" >> }

\* [f for f in xs if keep(f)] for the entries with an image suffix
RECURSIVE ImagesOf(_)
ImagesOf(entries) ==
  IF entries = << >> THEN << >>
  ELSE IF Lower(Suffix(Head(entries).name)) \in ImageSuffixes
       THEN << Head(entries) >> \o ImagesOf(Tail(entries))
       ELSE ImagesOf(Tail(entries))

\* MixcloudUploader.find_best_match_image: the entry found, or NoImage
NoImage == Entry(<< >>, "none")

find_best_match_image(img_folder, name) ==
  LET images  == ImagesOf(img_folder.entries)
      names   == [ i \in 1..Len(images) |-> Stem(images[i].name) ]
      matches == get_close_matches(Lower(name), LowerAll(names))
  IN  IF ~img_folder.exists THEN NoImage
      ELSE IF images = << >> THEN NoImage
      ELSE IF matches = << >> THEN NoImage
      ELSE LET i == FirstLowerEqual(names, matches[1])
           IN  IF i = 0 THEN NoImage ELSE images[i]

----------------------------------------------------------------------------
(* MixcloudUploader.upload: the request it builds *)

\* xs[:n]
Slice(xs, n) == SubSeq(xs, 1, IF Len(xs) < n THEN Len(xs) ELSE n)

\* sep.join(parts)
RECURSIVE Join(_, _)
Join(parts, sep) ==
  IF parts = << >> THEN << >>
  ELSE IF Len(parts) = 1 THEN parts[1]
  ELSE parts[1] \o sep \o Join(Tail(parts), sep)

TracklistPrefix    == << "Tracklist: http://dublab.cat/shows/" >>
DefaultDescription == << "Uploaded via Mixcloud Uploader" >>
BlankLine          == << "\n\n" >>

\* title or os.path.basename(mp3_path).replace(".mp3", "")
ShowName(a) == PyOr(a.title, Replace(Basename(a.mp3_path), << ".", "m", "p", "3" >>, << >>))

\* mutant of FinalHost: the catalog's host wins over the explicit one
CatalogHostFirst(host, csv_host) == PyOr(csv_host, host)

\* host or csv_host
FinalHost(host, csv_host) == PyOr(host, csv_host)

\* tags or csv_tags[:5]
FinalTags(tags, csv_tags) == PyOrList(tags, Slice(csv_tags, TagLimit))

\* mutant of Description: the tracklist line is appended without the test of date_str
DescriptionWithLine(bio, matched_name, date_str) ==
  LET parts == (IF Truthy(bio) THEN << bio >> ELSE << >>)
               \o << TracklistPrefix
                      \o Replace(Lower(matched_name), << " " >>, << "-" >>)
                      \o << "/" >> \o Format(date_str) >>
  IN  PyOr(Join(parts, BlankLine), DefaultDescription)

\* the description_parts list and its join
Description(bio, matched_name, date_str) ==
  LET parts == (IF Truthy(bio) THEN << bio >> ELSE << >>)
               \o (IF Truthy(date_str)
                   THEN << TracklistPrefix
                           \o Replace(Lower(matched_name), << " " >>, << "-" >>)
                           \o << "/" >> \o Format(date_str) >>
                   ELSE << >>)
  IN  PyOr(Join(parts, BlankLine), DefaultDescription)

\* f"{matched_name} {date_str} w/ {final_host}"
FullShowTitle(matched_name, date_str, final_host) ==
  Format(matched_name) \o << " " >> \o Format(date_str) \o << " w/ " >> \o Format(final_host)

\* mutant of TagFields: one field per tag, without the slice
TagFieldsOfAll(final_tags) == [ i \in 0..(Len(final_tags) - 1) |-> final_tags[i + 1] ]

\* the fields tags-{i}-tag, for i, tag in enumerate(final_tags[:5])
TagFields(final_tags) ==
  LET sent_tags == Slice(final_tags, TagLimit)
  IN  [ i \in 0..(Len(sent_tags) - 1) |-> sent_tags[i + 1] ]

\* data = {"name": full_show_title, "description": description} and the tag fields
Data(matched_name, bio, date_str, final_host, final_tags) ==
  [name        |-> FullShowTitle(matched_name, date_str, final_host),
   description |-> Description(bio, matched_name, date_str),
   tags        |-> TagFields(final_tags)]

\* the locals after the merge of the explicit and the catalog values
Merged(a, show_name, found, bio, csv_host, csv_tags, final_host, final_tags) ==
  [show_name    |-> show_name,
   matched      |-> DOMAIN found.meta # {},
   matched_name |-> found.matched_name,
   csv_host     |-> csv_host,
   csv_tags     |-> csv_tags,
   bio          |-> bio,
   final_host   |-> final_host,
   final_tags   |-> final_tags,
   data         |-> Data(found.matched_name, bio, a.date_str, final_host, final_tags)]

\* bio, csv_host and csv_tags of the record found, then final_host and final_tags
Looked(a, show_name, found, bio, csv_host, csv_tags) ==
  Merged(a, show_name, found, bio, csv_host, csv_tags,
         FinalHost(a.host, csv_host), FinalTags(a.tags, csv_tags))

Resolved(a, show_name, found) ==
  Looked(a, show_name, found,
         Strip(Get(found.meta, "bio", << >>)),
         Strip(Get(found.meta, "host", << >>)),
         Get(found.meta, "tags", << >>))

Named(metadata, a, show_name) ==
  Resolved(a, show_name, find_best_match_meta(metadata, show_name))

\* the locals the request is built from and the form fields
BuildRequest(metadata, a) == Named(metadata, a, ShowName(a))

----------------------------------------------------------------------------
(* The state *)

VARIABLES
  token,          \* MixcloudAuth.token: NoneStr or a str
  token_file,     \* token.txt: whether it exists and its text
  metadata_file,  \* shows.csv
  metadata,       \* MixcloudUploader.metadata, as loaded by the constructor
  img_folder,     \* the image directory
  pc,             \* per caller: where its upload call stands
  args,           \* per caller: the arguments of its upload call
  tok,            \* per caller: upload's local token (what get_token returned)
  code_holder,    \* per caller: run_oauth_flow's code_holder["code"], NoneStr when unset
  callback,       \* per caller: the last callback request served and its answer
  exchange,       \* per caller: the token request made and the number of them
  files,          \* per caller: upload's file handles
  req,            \* per caller: the locals of the request built
  sent,           \* per caller: the upload requests submitted in this call
  status,         \* per caller: resp.status_code, 0 before a response
  outcome,        \* per caller: "none", "True", "False" or the exception raised
  form,           \* per caller: the form of its /upload request (backend.py)
  handler,        \* per caller: where upload_show stands for its request
  tmp_file,       \* per caller: whether the temporary mp3 of its request exists
  overrides       \* the upload_*_override attributes of the shared uploader

vars == << token, token_file, metadata_file, metadata, img_folder, pc, args, tok,
           code_holder, callback, exchange, files, req, sent, status, outcome,
           form, handler, tmp_file, overrides >>

shared == << token, token_file >>
world  == << metadata_file, metadata, img_folder >>
front  == << form, handler, tmp_file, overrides >>
call   == << pc, args, tok, code_holder, callback, exchange, files, req, sent, status,
             outcome >>

\* an attribute that was never assigned
Unset == << "<unset>" >>

NoForm == [title |-> << >>, tags |-> << >>, host |-> << >>, day |-> << >>,
           month |-> << >>, year |-> << >>, picture_there |-> FALSE]
NoOverrides == [upload_name_override        |-> Unset,
                upload_description_override |-> Unset,
                upload_picture_override     |-> Unset]

Args(m, t, h, g, d) == [mp3_path |-> m, title |-> t, host |-> h, tags |-> g, date_str |-> d]

NoArgs == [mp3_path |-> << >>, title |-> NoneStr, host |-> NoneStr,
           tags |-> NoneList, date_str |-> NoneStr]
NoCallback == [query |-> << >>, reply |-> 0]
NoExchange == [count |-> 0, code |-> NoneStr, reply |-> [status |-> 0, access_token |-> NoneStr]]
NoFiles    == [mp3 |-> "absent", picture |-> "absent"]
NoRequest  == [show_name |-> << >>, matched |-> FALSE, matched_name |-> << >>,
               csv_host |-> << >>, csv_tags |-> << >>, bio |-> << >>,
               final_host |-> << >>, final_tags |-> << >>,
               data |-> [name |-> << >>, description |-> << >>, tags |-> << >>]]
NothingSent == << >>

\* the state after construction, over the files found on disk
InitOver(token_files, metadata_files, img_folders) ==
  /\ token = NoneStr
  /\ token_file \in token_files
  /\ metadata_file \in metadata_files
  /\ metadata = load_metadata(metadata_file)
  /\ img_folder \in img_folders
  /\ pc = [p \in Callers |-> "idle"]
  /\ args = [p \in Callers |-> NoArgs]
  /\ tok = [p \in Callers |-> NoneStr]
  /\ code_holder = [p \in Callers |-> NoneStr]
  /\ callback = [p \in Callers |-> NoCallback]
  /\ exchange = [p \in Callers |-> NoExchange]
  /\ files = [p \in Callers |-> NoFiles]
  /\ req = [p \in Callers |-> NoRequest]
  /\ sent = [p \in Callers |-> NothingSent]
  /\ status = [p \in Callers |-> 0]
  /\ outcome = [p \in Callers |-> "none"]
  /\ form = [p \in Callers |-> NoForm]
  /\ handler = [p \in Callers |-> "idle"]
  /\ tmp_file = [p \in Callers |-> FALSE]
  /\ overrides = NoOverrides

Init == InitOver(TokenFiles, MetadataFiles, ImageFolders)

\* a caller is between calls
Between(p) == pc[p] \in { "idle", "done" }

\* the call ends: upload returns a value or an exception leaves it
Ends(p, how) ==
  /\ pc' = [pc EXCEPT ![p] = "done"]
  /\ outcome' = [outcome EXCEPT ![p] = how]

Goes(p, where) ==
  /\ pc' = [pc EXCEPT ![p] = where]
  /\ UNCHANGED outcome

----------------------------------------------------------------------------
(* A front end calls uploader.upload(mp3_path, title, host, tags, date_str) *)

\* upload is entered with the arguments a: its locals are fresh
Called(p, a) ==
  /\ args' = [args EXCEPT ![p] = a]
  /\ tok' = [tok EXCEPT ![p] = NoneStr]
  /\ code_holder' = [code_holder EXCEPT ![p] = NoneStr]
  /\ callback' = [callback EXCEPT ![p] = NoCallback]
  /\ exchange' = [exchange EXCEPT ![p] = NoExchange]
  /\ files' = [files EXCEPT ![p] = NoFiles]
  /\ req' = [req EXCEPT ![p] = NoRequest]
  /\ sent' = [sent EXCEPT ![p] = NothingSent]
  /\ status' = [status EXCEPT ![p] = 0]
  /\ pc' = [pc EXCEPT ![p] = "get_token"]
  /\ outcome' = [outcome EXCEPT ![p] = "none"]

StartUpload(p, in) ==
  /\ Between(p)
  /\ \E a \in in.args : Called(p, a)
  /\ UNCHANGED << shared, world, front >>

----------------------------------------------------------------------------
(* MixcloudAuth.get_token *)

\* if self.token: return self.token
GetTokenCached(p) ==
  /\ pc[p] = "get_token"
  /\ IF Truthy(token)
     THEN /\ tok' = [tok EXCEPT ![p] = token]
          /\ Goes(p, "open_mp3")
     ELSE /\ Goes(p, "gt_read")
          /\ UNCHANGED tok
  /\ UNCHANGED << shared, world, front, args, code_holder, callback, exchange, files, req,
                  sent, status >>

\* mutant of ReadTokenFile: the text is taken as read, untrimmed
ReadUntrimmed(file, old) == IF file.exists THEN file.text ELSE old

\* if os.path.exists(token_file): self.token = f.read().strip()
ReadTokenFile(file, old) == IF file.exists THEN Strip(file.text) ELSE old

GetTokenRead(p) ==
  /\ pc[p] = "gt_read"
  /\ token' = ReadTokenFile(token_file, token)
  /\ Goes(p, "gt_check")
  /\ UNCHANGED << token_file, world, front, args, tok, code_holder, callback, exchange, files,
                  req, sent, status >>

\* if not self.token: run the flow
NeedsFlow(t) == ~Truthy(t)

\* a caller's run_oauth_flow holds the callback port: its HTTPServer is bound
Listening(q) == pc[q] \in { "oauth_wait", "oauth_exchange" }

\* HTTPServer(('', 8080), OAuthHandler) cannot bind a port another server holds
PortBusy(p) == \E q \in Callers \ { p } : Listening(q)

GetTokenCheck(p) ==
  /\ pc[p] = "gt_check"
  /\ IF ~NeedsFlow(token) THEN Goes(p, "gt_return")
     ELSE IF PortBusy(p) THEN Ends(p, "OSError")
     ELSE Goes(p, "oauth_wait")
  /\ UNCHANGED << shared, world, front, args, tok, code_holder, callback, exchange, files, req,
                  sent, status >>

\* self.token = self.run_oauth_flow()
GetTokenAssign(p) ==
  /\ pc[p] = "gt_assign"
  /\ token' = exchange[p].reply.access_token
  /\ Goes(p, "gt_write")
  /\ UNCHANGED << token_file, world, front, args, tok, code_holder, callback, exchange, files,
                  req, sent, status >>

\* mutant of WrittenFile: the file is opened for writing and nothing is written
WrittenEmpty(t) == [exists |-> TRUE, text |-> << >>]

\* open(token_file, "w") truncates; f.write(self.token) needs a str
WrittenFile(t) == [exists |-> TRUE, text |-> IF t = NoneStr THEN << >> ELSE t]

GetTokenWrite(p) ==
  /\ pc[p] = "gt_write"
  /\ token_file' = WrittenFile(token)
  /\ IF token = NoneStr THEN Ends(p, "TypeError") ELSE Goes(p, "gt_return")
  /\ UNCHANGED << token, world, front, args, tok, code_holder, callback, exchange, files, req,
                  sent, status >>

\* return self.token
GetTokenReturn(p) ==
  /\ pc[p] = "gt_return"
  /\ tok' = [tok EXCEPT ![p] = token]
  /\ Goes(p, "open_mp3")
  /\ UNCHANGED << shared, world, front, args, code_holder, callback, exchange, files, req,
                  sent, status >>

----------------------------------------------------------------------------
(* MixcloudAuth.run_oauth_flow *)

\* parse_qs(query): each key's non-blank values, in order (blank values are
\* dropped, and a key with none is not in the result)
ValuesOf(query, key) ==
  LET RECURSIVE Pick(_)
      Pick(q) == IF q = << >> THEN << >>
                 ELSE IF Head(q).key = key /\ Head(q).value # << >>
                      THEN << Head(q).value >> \o Pick(Tail(q))
                      ELSE Pick(Tail(q))
  IN  Pick(query)

parse_qs(query) ==
  LET keys == { k \in { query[i].key : i \in 1..Len(query) } : ValuesOf(query, k) # << >> }
  IN  [ k \in keys |-> ValuesOf(query, k) ]

\* OAuthHandler.do_GET: the status it answers with
Reply(params) == IF "code" \in DOMAIN params THEN 200 ELSE 400

\* OAuthHandler.do_GET: code_holder after the request
Captured(params, held) == IF "code" \in DOMAIN params THEN params["code"][1] ELSE held

\* mutant of StillWaiting: the wait ends with the first request served
WaitsForOne(held) == FALSE

\* while "code" not in code_holder
StillWaiting(held) == held = NoneStr

\* httpd.handle_request() serves one callback request
OAuthHandleRequest(p, in) ==
  /\ pc[p] = "oauth_wait"
  /\ \E q \in in.queries :
       LET params == parse_qs(q)
           held   == Captured(params, code_holder[p])
       IN  /\ callback' = [callback EXCEPT ![p] = [query |-> q, reply |-> Reply(params)]]
           /\ code_holder' = [code_holder EXCEPT ![p] = held]
           /\ Goes(p, IF StillWaiting(held) THEN "oauth_wait" ELSE "oauth_exchange")
  /\ UNCHANGED << shared, world, front, args, tok, exchange, files, req, sent, status >>

\* mutant of ExchangeFails: only the status is looked at
ExchangeFailsOnStatus(r) == r.status # 200

\* the token request's outcome: the access token, or the RuntimeError raised
ExchangeFails(r) == r.status # 200 \/ ~Truthy(r.access_token)

\* requests.post(token_url, data) and the checks on its response
OAuthExchange(p, in) ==
  /\ pc[p] = "oauth_exchange"
  /\ \E r \in in.replies :
       /\ exchange' = [exchange EXCEPT ![p] = [count |-> @.count + 1,
                                               code |-> code_holder[p], reply |-> r]]
       /\ IF ExchangeFails(r) THEN Ends(p, "RuntimeError") ELSE Goes(p, "gt_assign")
  /\ UNCHANGED << shared, world, front, args, tok, code_holder, callback, files, req, sent,
                  status >>

----------------------------------------------------------------------------
(* MixcloudUploader.upload, after get_token has returned *)

\* files = {"mp3": open(mp3_path, "rb")}
OpenMp3(p) ==
  /\ pc[p] = "open_mp3"
  /\ files' = [files EXCEPT ![p].mp3 = "open"]
  /\ Goes(p, "build")
  /\ UNCHANGED << shared, world, front, args, tok, code_holder, callback, exchange, req, sent,
                  status >>

\* show_name, the catalog look-up, the merge, description, title and data
Build(p) ==
  /\ pc[p] = "build"
  /\ req' = [req EXCEPT ![p] = BuildRequest(metadata, args[p])]
  /\ Goes(p, "image")
  /\ UNCHANGED << shared, world, front, args, tok, code_holder, callback, exchange, files, sent,
                  status >>

\* if img_path: files["picture"] = open(img_path, "rb"); a directory among the
\* entries cannot be opened
OpenFound(p, img_path) ==
  CASE img_path = NoImage ->
         /\ Goes(p, "post")
         /\ UNCHANGED files
    [] img_path # NoImage /\ img_path.kind = "file" ->
         /\ files' = [files EXCEPT ![p].picture = "open"]
         /\ Goes(p, "post")
    [] OTHER ->
         /\ Ends(p, "IsADirectoryError")
         /\ UNCHANGED files

\* img_path = find_best_match_image(matched_name), opened when one is found
OpenPicture(p) ==
  /\ pc[p] = "image"
  /\ OpenFound(p, find_best_match_image(img_folder, req[p].matched_name))
  /\ UNCHANGED << shared, world, front, args, tok, code_holder, callback, exchange, req, sent,
                  status >>

\* the keys of files
Attached(f) == { k \in { "mp3", "picture" } : f[k] # "absent" }

\* the request requests.post submits: the url's access_token, the form data, the files
Submission(t, r, f) == [access_token |-> Format(t), data |-> r.data, files |-> Attached(f)]

\* finally: for f in files.values(): f.close()
CloseAll(f) == [ k \in DOMAIN f |-> IF f[k] = "open" THEN "closed" ELSE f[k] ]

\* try: resp = requests.post(url, files=files, data=data), answered with a status
PostAnswered(p, in) ==
  /\ pc[p] = "post"
  /\ \E st \in in.statuses : status' = [status EXCEPT ![p] = st]
  /\ sent' = [sent EXCEPT ![p] = Append(@, Submission(tok[p], req[p], files[p]))]
  /\ files' = [files EXCEPT ![p] = CloseAll(@)]
  /\ Goes(p, "respond")
  /\ UNCHANGED << shared, world, front, args, tok, code_holder, callback, exchange, req >>

\* requests.post raises (no connection): the finally clause runs, the exception leaves
PostRaises(p) ==
  /\ pc[p] = "post"
  /\ sent' = [sent EXCEPT ![p] = Append(@, Submission(tok[p], req[p], files[p]))]
  /\ files' = [files EXCEPT ![p] = CloseAll(@)]
  /\ Ends(p, "ConnectionError")
  /\ UNCHANGED << shared, world, front, args, tok, code_holder, callback, exchange, req, status >>

\* mutant of Branch: every 2xx status counts as success
BranchAny2xx(st) ==
  IF st >= 200 /\ st < 300 THEN "success"
  ELSE IF st \in { 401, 403 } THEN "invalid_token"
  ELSE "failed"

\* the branch the response takes
Branch(st) ==
  IF st = 200 THEN "success"
  ELSE IF st \in { 401, 403 } THEN "invalid_token"
  ELSE "failed"

\* mutant of ReturnFalse: the call starts over instead of returning
TryAgain(p) == Goes(p, "get_token")

\* return False: the call is over, nothing is submitted again
ReturnFalse(p) == Ends(p, "False")

\* if resp.status_code == 200 ... elif ... in (401, 403) ... else
Respond(p) ==
  /\ pc[p] = "respond"
  /\ CASE Branch(status[p]) = "success"       -> Ends(p, "True")
       [] Branch(status[p]) = "invalid_token" -> Goes(p, "remove_token")
       [] OTHER                               -> ReturnFalse(p)
  /\ UNCHANGED << shared, world, front, args, tok, code_holder, callback, exchange, files, req,
                  sent, status >>

\* mutant of Removed: the token file is left in place
NotRemoved(file) == file

\* the file system after os.remove(token_file) has removed the file
Removed(file) == [exists |-> FALSE, text |-> << >>]

\* os.remove(path): the file is removed, or FileNotFoundError is raised
os_remove(file) ==
  IF file.exists THEN [file |-> Removed(file), raised |-> "none"]
  ELSE [file |-> file, raised |-> "FileNotFoundError"]

\* mutant of ExceptOSError: the remove is not guarded
ExceptNothing(raised) == FALSE

\* except OSError as e: the exceptions the clause catches (and logs)
ExceptOSError(raised) ==
  raised \in { "OSError", "FileNotFoundError", "PermissionError", "IsADirectoryError" }

\* try: os.remove(self.auth.token_file) except OSError: logging.error(...)
RemoveToken(p) ==
  /\ pc[p] = "remove_token"
  /\ token_file' = os_remove(token_file).file
  /\ IF os_remove(token_file).raised = "none" \/ ExceptOSError(os_remove(token_file).raised)
     THEN Goes(p, "clear_token")
     ELSE Ends(p, os_remove(token_file).raised)
  /\ UNCHANGED << token, world, front, args, tok, code_holder, callback, exchange, files, req,
                  sent, status >>

\* mutant of ClearToken: the in-memory token is kept
KeepToken(p) ==
  /\ pc[p] = "clear_token"
  /\ ReturnFalse(p)
  /\ UNCHANGED << shared, world, front, args, tok, code_holder, callback, exchange, files,
                  req, sent, status >>

\* self.auth.token = None; return False
ClearToken(p) ==
  /\ pc[p] = "clear_token"
  /\ token' = NoneStr
  /\ ReturnFalse(p)
  /\ UNCHANGED << token_file, world, front, args, tok, code_holder, callback, exchange, files,
                  req, sent, status >>

----------------------------------------------------------------------------
(* backend.py: the /upload handler upload_show around the shared uploader.
   The handler is a coroutine that awaits nothing after the temporary file is
   written, so the requests of one process run one after another. *)

\* str.zfill(width)
ZFill(s, width) ==
  LET zeros == [ i \in 1..(width - Len(s)) |-> "0" ]
  IN  IF Len(s) >= width THEN s
      ELSE IF s # << >> /\ s[1] \in { "+", "-" } THEN << s[1] >> \o zeros \o Tail(s)
      ELSE zeros \o s

\* date_str = None; if day and month and year: the f-string of the three
FormDate(day, month, year) ==
  IF Truthy(day) /\ Truthy(month) /\ Truthy(year)
  THEN year \o << "-" >> \o ZFill(month, 2) \o << "-" >> \o ZFill(day, 2)
  ELSE NoneStr

\* os.path.join(a, b)
PathJoin(a, b) ==
  IF b # << >> /\ b[1] = "/" THEN b
  ELSE IF a = << >> \/ a[Len(a)] = "/" THEN a \o b
  ELSE a \o << "/" >> \o b

ShowsFolder == << "s", "h", "o", "w", "s" >>
PictureName == << "picture.jpg" >>

\* picture_path if os.path.exists(picture_path) else None
PictureOverride(f) ==
  IF f.picture_there THEN PathJoin(PathJoin(ShowsFolder, f.title), PictureName)
  ELSE NoneStr

\* tmp.name of the NamedTemporaryFile(delete=False, suffix=".mp3")
TmpPath == << "/", "t", "/", "t", "m", "p", "a", "b", ".", "m", "p", "3" >>

\* the arguments upload_show passes to uploader.upload
FormArgs(f) ==
  Args(TmpPath, f.title, f.host, StripNonEmpty(Split(f.tags, ",")),
       FormDate(f.day, f.month, f.year))

\* the request arrives: the temporary mp3 is written
ReceiveUpload(p, in) ==
  /\ handler[p] \in { "idle", "answered", "raised" }
  /\ \E f \in in.forms : form' = [form EXCEPT ![p] = f]
  /\ tmp_file' = [tmp_file EXCEPT ![p] = TRUE]
  /\ handler' = [handler EXCEPT ![p] = "written"]
  /\ UNCHANGED << shared, world, call, overrides >>

\* uploader.upload_picture_override = picture_path if it exists, else None
PreparePicture(p) ==
  /\ handler[p] = "written"
  /\ overrides' = [overrides EXCEPT !.upload_picture_override = PictureOverride(form[p])]
  /\ handler' = [handler EXCEPT ![p] = "prepared"]
  /\ UNCHANGED << shared, world, call, form, tmp_file >>

\* try: success = uploader.upload(tmp_path, title=..., host=..., tags=..., date_str=...)
CallUpload(p) ==
  /\ handler[p] = "prepared"
  /\ Called(p, FormArgs(form[p]))
  /\ handler' = [handler EXCEPT ![p] = "calling"]
  /\ UNCHANGED << shared, world, form, tmp_file, overrides >>

\* mutant of ResetOverrides: only the picture override is reset
ResetPictureOnly(o) == [o EXCEPT !.upload_picture_override = NoneStr]

\* for attr in [the three names]: setattr(uploader, attr, None)
ResetOverrides(o) == [ attr \in DOMAIN o |-> NoneStr ]

\* if os.path.exists(tmp_path): os.remove(tmp_path)
RemovedIfThere(there) == IF there THEN FALSE ELSE there

\* upload has returned or raised: the finally clause runs, then the handler
\* returns {"success": success} or the exception leaves it
FinishRequest(p) ==
  /\ handler[p] = "calling" /\ pc[p] = "done"
  /\ tmp_file' = [tmp_file EXCEPT ![p] = RemovedIfThere(@)]
  /\ overrides' = ResetOverrides(overrides)
  /\ handler' = [handler EXCEPT ![p] = IF outcome[p] \in { "True", "False" }
                                        THEN "answered" ELSE "raised"]
  /\ UNCHANGED << shared, world, call, form >>

----------------------------------------------------------------------------
(* The specifications.  Each draws the inputs of the steps (the arguments of
   upload, the callback requests, the answers of the two endpoints) from the
   sets of a scope.  Caller c1 makes its calls one after another: upload keeps
   nothing from one call to the next but the shared auth and the files, so
   these are the serialized calls of any number of callers. *)

AllArgs ==
  { Args(m, t, h, g, d) : m \in Mp3Paths, t \in Titles, h \in Hosts, g \in TagLists,
                          d \in DateStrs }

\* the token life cycle in full, under two calls' worth of arguments
AuthScope ==
  [args     |-> { Args(m, << "A", "b" >>, NoneStr, NoneList, NoneStr) : m \in Mp3Paths }
                \cup { Args(m, NoneStr, S("g"), SubSeq(TagPool, 1, MaxTags), S("d")) :
                         m \in Mp3Paths },
   queries  |-> Queries,
   replies  |-> TokenReplies,
   statuses |-> UploadStatuses]

\* every combination of arguments, under one successful and one failing answer
\* of each endpoint
RequestScope ==
  [args     |-> AllArgs,
   queries  |-> { << >>, << Pair("code", S("x")) >> },
   replies  |-> { [status |-> 200, access_token |-> S("b")],
                  [status |-> 400, access_token |-> NoneStr] },
   statuses |-> { 200, 401 }]

\* the steps of a call of upload that has been entered
Run(p, in) ==
  \/ GetTokenCached(p)
  \/ GetTokenRead(p)
  \/ GetTokenCheck(p)
  \/ OAuthHandleRequest(p, in)
  \/ OAuthExchange(p, in)
  \/ GetTokenAssign(p)
  \/ GetTokenWrite(p)
  \/ GetTokenReturn(p)
  \/ OpenMp3(p)
  \/ Build(p)
  \/ OpenPicture(p)
  \/ PostAnswered(p, in)
  \/ PostRaises(p)
  \/ Respond(p)
  \/ RemoveToken(p)
  \/ ClearToken(p)

Step(p, in) ==
  \/ StartUpload(p, in)
  \/ Run(p, in)

Next == Step("c1", AuthScope)

Spec == Init /\ [][Next]_vars

NextRequest == Step("c1", RequestScope)

SpecRequest == Init /\ [][NextRequest]_vars

\* the show names of the catalogs, as load_metadata keys them
CatalogNames ==
  { << "A", "b" >>, << "a", "b", " ", "c" >>, << "a", "b" >>, << "A", "B" >>,
    << "a", "b", " ", "d" >> }

\* upload(mp3_path, title=name) for every catalog name, for a name far from
\* all of them and without a title, under one successful and one failing
\* answer of each endpoint
ResolveScope ==
  [args     |-> { Args(m, t, NoneStr, NoneList, NoneStr) :
                    m \in Mp3Paths, t \in CatalogNames \cup { NoneStr, << "z", "z" >> } },
   queries  |-> RequestScope.queries,
   replies  |-> RequestScope.replies,
   statuses |-> RequestScope.statuses]

InitResolve == InitOver(TokenFiles, CatalogFiles, ImageFolders)

NextResolve == Step("c1", ResolveScope)

SpecResolve == InitResolve /\ [][NextResolve]_vars

\* two calls of upload at a time on the one auth object, nothing serializing
\* them: one argument tuple, a token file that holds a token or is not there,
\* no catalog and no image directory
ConcurrentScope ==
  [args     |-> { Args(m, << "A", "b" >>, NoneStr, NoneList, NoneStr) : m \in Mp3Paths },
   queries  |-> RequestScope.queries,
   replies  |-> RequestScope.replies,
   statuses |-> RequestScope.statuses]

InitConcurrent ==
  InitOver({ f \in TokenFiles : ~f.exists \/ f.text = S("a") },
           { f \in MetadataFiles : ~f.exists },
           { f \in ImageFolders : ~f.exists })

NextConcurrent == \E p \in Callers : Step(p, ConcurrentScope)

SpecConcurrent == InitConcurrent /\ [][NextConcurrent]_vars

\* the forms of two requests, each with and without a picture.jpg in the
\* show's folder, under one successful and one failing answer of each endpoint
FrontScope ==
  [forms    |-> { [title |-> << "A", "b" >>, tags |-> << >>, host |-> << >>,
                   day |-> << >>, month |-> << >>, year |-> << >>,
                   picture_there |-> there] : there \in BOOLEAN }
                \cup
                { [title |-> << "z", "z" >>, tags |-> << "p", ",", " ", "q" >>,
                   host |-> S("g"), day |-> S("7"), month |-> << "1", "2" >>,
                   year |-> << "2", "4" >>, picture_there |-> there] :
                    there \in BOOLEAN },
   queries  |-> RequestScope.queries,
   replies  |-> RequestScope.replies,
   statuses |-> RequestScope.statuses]

FrontStep(p, in) ==
  \/ ReceiveUpload(p, in)
  \/ PreparePicture(p)
  \/ CallUpload(p)
  \/ Run(p, in)
  \/ FinishRequest(p)

NextFrontEnd == FrontStep("c1", FrontScope)

SpecFrontEnd == Init /\ [][NextFrontEnd]_vars

----------------------------------------------------------------------------
(* Properties *)

\* the token file holds no token: it is absent, or empty once trimmed
FileBlank(file) == ~file.exists \/ Strip(file.text) = << >>

\* the token store holds nothing: no file, and None in memory
Cleared == token = NoneStr /\ ~token_file.exists

Rejected(st) == st \in { 401, 403 }

\* upload has its token and is on its way to submitting the request
Submitting(p) == pc[p] \in { "open_mp3", "build", "image", "post" }

\* C1: an upload answered 401 or 403 returns False with the token file removed
\* and the in-memory token None; the store then stays empty until an OAuth flow
\* hands over a new token, and no upload is submitted while it is empty.
C1_RejectionClearsToken ==
  /\ [](\A p \in Callers :
          /\ (pc[p] = "done" /\ Rejected(status[p])) => (outcome[p] = "False" /\ Cleared)
          /\ Submitting(p) => ~Cleared)
  /\ [][(Cleared /\ ~Cleared') =>
          \E p \in Callers : pc[p] = "gt_assign" /\ exchange[p].count = 1]_vars

C1_Witness ==
  \E p \in Callers :
    /\ pc[p] = "done" /\ status[p] = 401 /\ outcome[p] = "False"
    /\ Cleared /\ Len(sent[p]) = 1 /\ sent[p][1].access_token = S("a")


\* get_token is running its OAuth flow, or has run it in this call
InFlow(p) == pc[p] \in { "oauth_wait", "oauth_exchange" }

\* C2: get_token runs the OAuth flow exactly when memory holds no non-empty
\* token and the token file is absent or empty once trimmed; the token a flow
\* acquires is in the token file before get_token returns; the token get_token
\* returns is the one the upload request carries.
C2_FlowIffNoToken ==
  /\ [][\A p \in Callers :
          /\ (pc[p] = "get_token" /\ pc'[p] = "open_mp3") => Truthy(token)
          /\ (pc[p] = "get_token" /\ pc'[p] = "gt_read") => ~Truthy(token)
          /\ (pc[p] = "gt_check" /\ pc'[p] = "gt_return") => ~FileBlank(token_file)
          /\ (pc[p] = "gt_check" /\ pc'[p] = "oauth_wait") => FileBlank(token_file)
          /\ (~InFlow(p) /\ InFlow(p)') => pc[p] = "gt_check"]_vars
  /\ [](\A p \in Callers :
          /\ (pc[p] = "gt_return" /\ exchange[p].count > 0) =>
               /\ token_file = [exists |-> TRUE, text |-> exchange[p].reply.access_token]
               /\ token = exchange[p].reply.access_token
          /\ Submitting(p) => (Truthy(tok[p]) /\ tok[p] = token)
          /\ \A i \in 1..Len(sent[p]) : sent[p][i].access_token = tok[p])

C2_Witness ==
  \E p \in Callers :
    /\ pc[p] = "respond" /\ exchange[p].count = 1
    /\ Len(sent[p]) = 1 /\ sent[p][1].access_token = S("b")
    /\ token_file = [exists |-> TRUE, text |-> S("b")]

\* C3: when the status is neither 401 nor 403, handling the response leaves the
\* in-memory token and the token file as they were, and the call returns True
\* if the status is 200 and False otherwise.
C3_OtherStatusLeavesToken ==
  [][\A p \in Callers :
       (pc[p] = "respond" /\ ~Rejected(status[p])) =>
         /\ token' = token
         /\ token_file' = token_file
         /\ pc'[p] = "done"
         /\ outcome'[p] = (IF status[p] = 200 THEN "True" ELSE "False")]_vars

C3_Witness ==
  \E p \in Callers :
    /\ pc[p] = "done" /\ status[p] = 201 /\ outcome[p] = "False"
    /\ token = S("a") /\ token_file = [exists |-> TRUE, text |-> << "a", "\n" >>]


\* C4: every file handle upload has opened is closed when the call is over,
\* whether it returned True or False or an exception left it.
C4_HandlesClosedOnExit ==
  \A p \in Callers :
    pc[p] = "done" => (files[p].mp3 # "open" /\ files[p].picture # "open")

\* the token endpoint's answer is a failure: not 200, or no access token in it
BadReply(r) == r.status # 200 \/ r.access_token \in { NoneStr, << >> }

\* C5: a token request answered with a non-200 status or without an access
\* token ends the call with the RuntimeError, after that one request; memory
\* and the token file hold no token (the failing step leaves both untouched)
\* and no upload request has been submitted.
C5_ExchangeFailureIsFatal ==
  /\ [](\A p \in Callers :
          /\ (exchange[p].count > 0 /\ BadReply(exchange[p].reply)) =>
               /\ pc[p] = "done" /\ outcome[p] = "RuntimeError"
               /\ exchange[p].count = 1
               /\ ~Truthy(token) /\ FileBlank(token_file)
               /\ sent[p] = << >>
          /\ outcome[p] = "RuntimeError" => BadReply(exchange[p].reply))
  /\ [][\A p \in Callers :
          (outcome[p] # "RuntimeError" /\ outcome'[p] = "RuntimeError") =>
            (token' = token /\ token_file' = token_file)]_vars

C5_Witness ==
  \E p \in Callers :
    /\ pc[p] = "done" /\ outcome[p] = "RuntimeError"
    /\ exchange[p].reply = [status |-> 200, access_token |-> NoneStr]
    /\ token = << >> /\ token_file = [exists |-> TRUE, text |-> << " ", "\n" >>]

\* the query names code / holds a code value that is not blank
NamesCode(q)      == \E i \in 1..Len(q) : q[i].key = "code"
HoldsCode(q)      == \E i \in 1..Len(q) : q[i].key = "code" /\ q[i].value # << >>
FirstNamed(q)     == q[CHOOSE i \in 1..Len(q) :
                         /\ q[i].key = "code"
                         /\ \A j \in 1..(i - 1) : q[j].key # "code"].value
FirstHeld(q)      == q[CHOOSE i \in 1..Len(q) :
                         /\ q[i].key = "code" /\ q[i].value # << >>
                         /\ \A j \in 1..(i - 1) : ~(q[j].key = "code" /\ q[j].value # << >>)].value

\* the callback wait of caller p, for one reading Has / CodeOf of "a request
\* carrying a code": a request without one is answered 400 and the wait goes
\* on, a request with one is answered 200, ends the wait and gives the code
WaitServes(p, Has(_), CodeOf(_)) ==
  (pc[p] = "oauth_wait" /\ << pc[p], callback[p] >> # << pc'[p], callback'[p] >>) =>
    IF Has(callback'[p].query)
    THEN /\ callback'[p].reply = 200
         /\ pc'[p] = "oauth_exchange"
         /\ code_holder'[p] = CodeOf(callback'[p].query)
    ELSE /\ callback'[p].reply = 400
         /\ pc'[p] = "oauth_wait"
         /\ code_holder'[p] = code_holder[p]

\* the token request is made with the code captured, never before one is
ExchangesCaptured(p) ==
  /\ (pc[p] = "oauth_exchange" \/ exchange[p].count > 0) => code_holder[p] # NoneStr
  /\ exchange[p].count > 0 => exchange[p].code = code_holder[p]

\* C6 as stated: the wait serves requests until one carrying a code parameter
\* arrives; requests without it get 400 and the wait continues, the request
\* with it gets 200 and ends the wait, its code is the one exchanged, and the
\* exchange never starts before a code is captured.
C6_WaitEndsOnCodeParameter ==
  /\ [][\A p \in Callers : WaitServes(p, NamesCode, FirstNamed)]_vars
  /\ [](\A p \in Callers : ExchangesCaptured(p))

\* C6, amended: the same with "carrying a code parameter" read as "carrying a
\* code parameter whose value is not empty": a request whose code values are
\* all empty is answered 400 like one without code, and the code exchanged is
\* the first non-empty one.
C6_WaitEndsOnNonBlankCode ==
  /\ [][\A p \in Callers : WaitServes(p, HoldsCode, FirstHeld)]_vars
  /\ [](\A p \in Callers : ExchangesCaptured(p))

C6_Witness ==
  \E p \in Callers :
    /\ pc[p] = "done" /\ exchange[p].count = 1 /\ exchange[p].code = S("y")
    /\ callback[p] = [query |-> << Pair("code", << >>), Pair("code", S("y")) >>,
                      reply |-> 200]

\* C7: a call submits at most one upload request and has one outcome: nothing
\* is submitted again after a response (401/403 included), the outcome stands
\* once the call is over, and only a new invocation starts get_token again.
C7_OneSubmissionOneOutcome ==
  /\ [](\A p \in Callers :
          /\ Len(sent[p]) <= 1
          /\ (outcome[p] # "none") <=> (pc[p] = "done"))
  /\ [][\A p \in Callers :
          /\ (pc[p] \in { "respond", "remove_token", "clear_token" }) =>
               /\ sent'[p] = sent[p]
               /\ pc'[p] \in { pc[p], "remove_token", "clear_token", "done" }
          /\ (pc[p] # "get_token" /\ pc'[p] = "get_token") => Between(p)
          /\ (pc[p] = "done" /\ pc'[p] = "done") =>
               (outcome'[p] = outcome[p] /\ sent'[p] = sent[p])]_vars

C7_Witness ==
  \E p \in Callers :
    /\ pc[p] = "done" /\ status[p] = 403 /\ outcome[p] = "False" /\ Len(sent[p]) = 1


\* upload has built its request (its locals are set)
Built(p) == req[p].show_name # << >>

\* the catalog record upload matched, and its fields (empty without a match)
CatalogHost(p) ==
  IF req[p].matched THEN DictGet(metadata, req[p].matched_name).host ELSE << >>
CatalogTags(p) ==
  IF req[p].matched THEN DictGet(metadata, req[p].matched_name).tags ELSE << >>

\* the tags a call asks for: the explicit list unless absent or empty, else the catalog's
WantedTags(p) == IF args[p].tags \notin { NoneList, << >> } THEN args[p].tags ELSE CatalogTags(p)

FirstFive(xs) == [ i \in 1..(IF Len(xs) < 5 THEN Len(xs) ELSE 5) |-> xs[i] ]

\* C8: a submitted request has at most 5 tag fields, tags-0-tag .. tags-4-tag,
\* holding the first 5 entries of the tag list, explicit or from the catalog.
C8_AtMostFiveTagFields ==
  \A p \in Callers : \A n \in 1..Len(sent[p]) :
    LET fields == sent[p][n].data.tags
        wanted == FirstFive(WantedTags(p))
    IN  /\ Cardinality(DOMAIN fields) <= 5
        /\ DOMAIN fields = 0..(Len(wanted) - 1)
        /\ \A i \in DOMAIN fields : fields[i] = wanted[i + 1]

C8_Witness ==
  \E p \in Callers :
    /\ Len(sent[p]) = 1 /\ Len(args[p].tags) = 6 /\ args[p].tags # NoneList
    /\ DOMAIN sent[p][1].data.tags = 0..4
    /\ Len(CatalogTags(p)) = 7

\* C9: the host and tags upload uses are the explicit ones when given and not
\* empty, and otherwise the matched catalog record's host and its tags cut to 5.
C9_ExplicitOverridesCatalog ==
  \A p \in Callers :
    Built(p) =>
      /\ req[p].final_host =
           (IF args[p].host \notin { NoneStr, << >> } THEN args[p].host ELSE CatalogHost(p))
      /\ req[p].final_tags =
           (IF args[p].tags \notin { NoneList, << >> } THEN args[p].tags
            ELSE FirstFive(CatalogTags(p)))

C9_Witness ==
  \E p \in Callers :
    /\ pc[p] = "done" /\ Built(p) /\ req[p].matched
    /\ args[p].host = S("g") /\ CatalogHost(p) = S("h") /\ req[p].final_host = S("g")
    /\ args[p].tags = << >> /\ Len(CatalogTags(p)) = 7 /\ Len(req[p].final_tags) = 5

\* a value as a segment of the title: nothing for a value that was not supplied
Segment(x) == IF x = NoneStr THEN << >> ELSE x

\* C10: the title is the resolved name, a space, the date string, " w/ " and
\* the final host, with an empty segment for an absent date or host.
C10_AbsentSegmentsEmpty ==
  \A p \in Callers :
    Built(p) =>
      req[p].data.name =
        req[p].matched_name \o << " " >> \o Segment(args[p].date_str)
          \o << " w/ " >> \o Segment(req[p].final_host)

\* the bio of the catalog record upload matched (empty without a match)
CatalogBio(p) ==
  IF req[p].matched THEN DictGet(metadata, req[p].matched_name).bio ELSE << >>

\* a name lower-cased, with a hyphen for every space
Hyphenated(name) ==
  [ i \in 1..Len(name) |-> IF name[i] = " " THEN "-" ELSE LowerChar(name[i]) ]

\* the tracklist line of a call: the resolved name's page and the date string
TracklistLine(p) ==
  TracklistPrefix \o Hyphenated(req[p].matched_name) \o << "/" >> \o args[p].date_str

HasBio(p)  == CatalogBio(p) # << >>
HasDate(p) == args[p].date_str \notin { NoneStr, << >> }

\* C11: the description sent is the bio alone with a bio and no date, the
\* default string with neither, and the bio, a blank line and the tracklist
\* line with both; a tracklist line is in it only if a date string was supplied.
C11_DescriptionParts ==
  \A p \in Callers : \A n \in 1..Len(sent[p]) :
    LET description == sent[p][n].data.description
    IN  /\ (HasBio(p) /\ ~HasDate(p)) => description = CatalogBio(p)
        /\ (~HasBio(p) /\ ~HasDate(p)) => description = DefaultDescription
        /\ (HasBio(p) /\ HasDate(p)) =>
             description = CatalogBio(p) \o BlankLine \o TracklistLine(p)
        /\ (\E i \in 1..Len(description) : description[i] = TracklistPrefix[1])
             => HasDate(p)

C11_Witness ==
  \E p \in Callers :
    /\ Len(sent[p]) = 1 /\ HasBio(p) /\ HasDate(p)
    /\ req[p].matched_name = << "A", "b" >>
    /\ sent[p][1].data.description =
         << "d", "e", "\n\n", "Tracklist: http://dublab.cat/shows/", "a", "b", "/", "d" >>

\* the call resolves a name the catalog holds
ExactCall(p) ==
  Built(p) /\ \E i \in 1..Len(metadata) : metadata[i].name = args[p].title

\* the record upload found, as the fields it read from it
FoundRecord(p) == [bio |-> req[p].bio, tags |-> req[p].csv_tags, host |-> req[p].csv_host]

\* the first catalog name, in catalog order, equal to a name ignoring case
FirstOfCase(name) ==
  LET i == CHOOSE k \in 1..Len(metadata) :
             /\ Lower(metadata[k].name) = Lower(name)
             /\ \A j \in 1..(k - 1) : Lower(metadata[j].name) # Lower(name)
  IN  metadata[i]

\* C12 as stated: resolving a catalog name returns that name and its own record,
\* whatever the catalog holds.
C12_ExactNameOwnRecord ==
  \A p \in Callers :
    ExactCall(p) =>
      /\ req[p].matched
      /\ req[p].matched_name = args[p].title
      /\ FoundRecord(p) = DictGet(metadata, args[p].title)

\* C12 amended: resolving a catalog name returns the first catalog name equal
\* to it ignoring case, with that name's record, which is the name itself and
\* its own record when no earlier catalog name differs from it only in case.
C12_ExactNameFirstOfCase ==
  \A p \in Callers :
    ExactCall(p) =>
      /\ req[p].matched
      /\ req[p].matched_name = FirstOfCase(args[p].title).name
      /\ FoundRecord(p) = FirstOfCase(args[p].title).value

C12_Witness ==
  \E p \in Callers :
    /\ ExactCall(p) /\ Len(metadata) = 3
    /\ args[p].title = << "a", "b", " ", "d" >>
    /\ req[p].matched_name = << "a", "b", " ", "d" >>
    /\ req[p].bio = S("y")

\* a candidate clears the threshold for a query: their similarity ignoring
\* case, twice the matching size over the total length, is at least 0.6
Similar(candidate, query) ==
  10 * 2 * MatchingSize(Lower(candidate), Lower(query))
    >= 6 * (Len(candidate) + Len(query))

\* the image entry a call's image look-up returns
ImageFound(p) == find_best_match_image(img_folder, req[p].matched_name)

\* the image candidates: the entries of the image directory with an image suffix
ImageCandidates ==
  { e \in { img_folder.entries[i] : i \in 1..Len(img_folder.entries) } :
      Lower(Suffix(e.name)) \in ImageSuffixes }

\* C13: a look-up returns none or a candidate as the candidate set holds it (a
\* catalog key, an entry of the image directory), never the lower-cased
\* comparison key; it returns none when there is no candidate or no candidate
\* clears the threshold; so the catalog look-up after a match hits a key.
C13_ResolverReturnsCandidateOrNone ==
  \A p \in Callers :
    Built(p) =>
      /\ req[p].matched =>
           \E i \in 1..Len(metadata) :
             /\ metadata[i].name = req[p].matched_name
             /\ FoundRecord(p) = metadata[i].value
      /\ ~req[p].matched => req[p].matched_name = req[p].show_name
      /\ (\A i \in 1..Len(metadata) : ~Similar(metadata[i].name, req[p].show_name))
           => ~req[p].matched
      /\ ImageFound(p) = NoImage \/ ImageFound(p) \in ImageCandidates
      /\ (\A e \in ImageCandidates : ~Similar(Stem(e.name), req[p].matched_name))
           => ImageFound(p) = NoImage
      /\ (~img_folder.exists \/ ImageFound(p) = NoImage) => files[p].picture = "absent"

C13_Witness ==
  \E p \in Callers :
    /\ Built(p) /\ pc[p] = "done"
    /\ req[p].show_name = << "a", "b" >> /\ req[p].matched
    /\ req[p].matched_name = << "A", "b" >>
    /\ ImageFound(p) = Entry(<< "a", "b", ".", "J", "P", "G" >>, "file")
    /\ files[p].picture = "closed"

\* the catalog look-up of a call found no record; its image look-up found no image
MetaMiss(p)  == Built(p) /\ ~req[p].matched
ImageMiss(p) == Built(p) /\ ImageFound(p) = NoImage

\* the call is past the opening of the picture
PastImage(p) == pc[p] \in { "post", "respond", "remove_token", "clear_token", "done" }

\* C14: a missing metadata file and an empty catalog give a metadata miss, a
\* missing image directory an image miss; a metadata miss leaves the literal
\* name and empty catalog fields, an image miss no picture; and a call with
\* both submits its request once, with the mp3 alone, and returns True for the
\* status 200 and False for any other (the exception of requests.post leaves
\* when no response arrives).
C14_MissNeverFailsUpload ==
  \A p \in Callers :
    /\ (Built(p) /\ (~metadata_file.exists \/ metadata = << >>)) => MetaMiss(p)
    /\ (Built(p) /\ ~img_folder.exists) => ImageMiss(p)
    /\ MetaMiss(p) =>
         /\ req[p].matched_name = req[p].show_name
         /\ FoundRecord(p) = [bio |-> << >>, tags |-> << >>, host |-> << >>]
    /\ (ImageMiss(p) /\ PastImage(p)) => files[p].picture = "absent"
    /\ (MetaMiss(p) /\ ImageMiss(p) /\ pc[p] = "done") =>
         /\ Len(sent[p]) = 1
         /\ sent[p][1].files = { "mp3" }
         /\ outcome[p] = (IF status[p] = 0 THEN "ConnectionError"
                          ELSE IF status[p] = 200 THEN "True" ELSE "False")

C14_Witness ==
  \E p \in Callers :
    /\ pc[p] = "done" /\ MetaMiss(p) /\ ImageMiss(p)
    /\ metadata # << >> /\ img_folder.exists
    /\ req[p].matched_name = << "z", "z" >>
    /\ status[p] = 200 /\ outcome[p] = "True"

\* caller p takes the step of its call that stands at a place
Takes(p, place) == pc[p] = place /\ pc'[p] # place

\* C15: a rejected call that finds the token file already absent goes on to
\* clear the in-memory token and returns False, no exception escaping; and on
\* a store already cleared the removal and the clearing change nothing.
C15_ClearingIsIdempotent ==
  [][\A p \in Callers :
       /\ (Takes(p, "remove_token") /\ ~token_file.exists) =>
            /\ pc'[p] = "clear_token" /\ outcome'[p] = "none"
            /\ ~token_file'.exists
       /\ Takes(p, "clear_token") =>
            /\ token' = NoneStr
            /\ pc'[p] = "done" /\ outcome'[p] = "False"
       /\ ((Takes(p, "remove_token") \/ Takes(p, "clear_token")) /\ Cleared) =>
            /\ Cleared'
            /\ UNCHANGED shared]_vars

\* both callers submitted with the token a of the file, both were rejected and
\* both have cleared: the second removal found the file gone
C15_Witness ==
  /\ \A p \in Callers :
       /\ pc[p] = "done" /\ tok[p] = S("a") /\ Len(sent[p]) = 1
       /\ Rejected(status[p]) /\ outcome[p] = "False"
  /\ Cleared

\* at most one call is running: the calls are serialized
Serialized == Cardinality({ p \in Callers : ~Between(p) }) <= 1

\* a call is invalidating the token it submitted with: its 401/403 has arrived
\* and its clearing is not complete
Invalidating(p) ==
  /\ pc[p] \in { "respond", "remove_token", "clear_token" }
  /\ Rejected(status[p])

\* the tokens the token endpoint issues in the concurrent scope
Reissued == { r.access_token : r \in ConcurrentScope.replies }

\* call q holds, for a submission still to come, a token that call p was
\* rejected with and that the endpoint does not issue again
StaleHeld(p, q) ==
  /\ p # q
  /\ Rejected(status[p]) /\ Len(sent[p]) = 1
  /\ Truthy(tok[p]) /\ tok[p] \notin Reissued
  /\ Submitting(q) /\ tok[q] = tok[p]

\* C16: with two calls on one auth and nothing serializing them, a call that
\* enters get_token while the other is invalidating the token T still in
\* memory is handed T and goes on to submit with it; and in a behaviour whose
\* calls are serialized no call ever holds a token another was rejected with.
C16_RaceOnlyWhenNotSerialized ==
  /\ [][\A p, q \in Callers :
          (/\ p # q /\ Invalidating(p) /\ Truthy(token) /\ tok[p] = token
           /\ Takes(q, "get_token"))
          => (tok'[q] = tok[p] /\ pc'[q] = "open_mp3")]_vars
  /\ ([]Serialized => [](\A p, q \in Callers : ~StaleHeld(p, q)))

\* call c2 has just been handed the token a that call c1, rejected with it, is
\* clearing: c1 has removed the file and not yet cleared the memory
C16_Witness ==
  /\ Invalidating("c1") /\ pc["c1"] = "clear_token" /\ tok["c1"] = S("a")
  /\ ~token_file.exists /\ token = S("a")
  /\ pc["c2"] = "open_mp3" /\ tok["c2"] = S("a") /\ sent["c2"] = NothingSent
  /\ StaleHeld("c1", "c2")

\* no call is running
CallBoundary == \A p \in Callers : Between(p)

\* C17 as stated: at a call boundary a non-empty in-memory token is exactly
\* what the token file holds.
C17_MemoryEqualsFile ==
  (CallBoundary /\ Truthy(token)) =>
    (token_file.exists /\ token_file.text = token)

\* C17 amended: at a call boundary a non-empty in-memory token is what the
\* token file holds, exactly or once the white space around the file's text is
\* trimmed, so the memory and the file name one token.
C17_MemoryEqualsTrimmedFile ==
  (CallBoundary /\ Truthy(token)) =>
    /\ token_file.exists
    /\ token_file.text = token \/ Strip(token_file.text) = token

C17_Witness ==
  /\ CallBoundary /\ pc["c1"] = "done" /\ outcome["c1"] = "True"
  /\ token = S("a") /\ token_file.exists /\ token_file.text = << "a", "\n" >>

\* the request of a caller has ended: upload_show returned or an exception left it
RequestEnded(p) == handler[p] \in { "answered", "raised" }

AllOverridesNone ==
  /\ overrides.upload_name_override = NoneStr
  /\ overrides.upload_description_override = NoneStr
  /\ overrides.upload_picture_override = NoneStr

\* C18: a request whose temporary mp3 was written ends, whether upload
\* returned True or False or raised, with the temporary file removed and the
\* three override attributes None; the file is there during the call, and the
\* next request finds no picture override left by the one before.
C18_RequestLeavesNothingBehind ==
  \A p \in Callers :
    /\ RequestEnded(p) => (~tmp_file[p] /\ AllOverridesNone)
    /\ handler[p] \in { "written", "prepared", "calling" } => tmp_file[p]
    /\ handler[p] = "written" => overrides.upload_picture_override \in { Unset, NoneStr }
    /\ handler[p] = "answered" => outcome[p] \in { "True", "False" }
    /\ handler[p] = "raised" => outcome[p] \notin { "none", "True", "False" }

\* a request that found a picture.jpg and whose upload raised has ended
C18_Witness ==
  \E p \in Callers :
    /\ handler[p] = "raised" /\ outcome[p] = "RuntimeError"
    /\ form[p].picture_there /\ args[p].mp3_path = TmpPath
    /\ ~tmp_file[p] /\ AllOverridesNone

====
